---- MODULE Spec2Model ----
(***************************************************************************)
(* A model of the lsli skid (src/src/lsli/main.py): the paginated GraphQL  *)
(* fetch, the point spatializer and cleaner, the sheet loader, the         *)
(* approved-systems and links cleaners, the merge with the geometries, the *)
(* AGOL column cleaner and the order of the stages of process().           *)
(* A DataFrame is a sequence of rows [idx, rec]: idx is the pandas index   *)
(* label, rec the row's cells.  Each component has its own specification   *)
(* over the shared variables.                                              *)
(***************************************************************************)
EXTENDS Integers, Sequences, FiniteSets, TLC

VARIABLES
    pc,                 \* the position of the run
    raised,             \* "none", or the exception that ended the run
    limit,              \* load_records_from_graphql: the page size
    offset,             \* load_records_from_graphql: the next offset
    result_length,      \* load_records_from_graphql: length of the last page
    records_list,       \* load_records_from_graphql: the accumulated records
    requests,           \* the client.execute calls made so far: [offset, limit, page]
    records,            \* PointData.records
    fetched,            \* PointData.records as load_records_from_graphql left it
    missing_coords,     \* PointData.missing_coords
    web_mercator_dfs,   \* spatialize_point_data: the frames handed to pd.concat
    spatial_records,    \* PointData.spatial_records
    cleans,             \* how many times clean_point_data has completed
    uncleaned,          \* spatial_records as spatialize_point_data left it
    first_cleaned,      \* spatial_records after the first clean_point_data
    points_layer,       \* the rows of the points feature layer
    systems,            \* GoogleSheetData.systems
    invalid_pwsids,     \* GoogleSheetData.invalid_pwsids
    cleaned_systems_dataframe,  \* GoogleSheetData.cleaned_systems_dataframe
    loaded_sheet,       \* what the sheet loader returned to load_systems_from_sheet
    loaded_links,       \* GoogleSheetData.links as load_system_links_from_gsheet left it
    links,              \* GoogleSheetData.links
    duplicate_link_pwsids,      \* GoogleSheetData.duplicate_link_pwsids
    cleaned_water_service_areas,    \* GoogleSheetData.cleaned_water_service_areas
    all_systems,        \* merge_systems_and_geometries: the stacked approved systems and links
    missing_geometries, \* GoogleSheetData.missing_geometries
    merged_systems,     \* GoogleSheetData.final_systems as merge_systems_and_geometries left it
    final_systems,      \* GoogleSheetData.final_systems
    log,                \* process: the stages called so far, each with its outcome
    features_loaded,    \* process: the count the points load returned
    areas_loaded,       \* process: the count the areas load returned
    notified            \* process: the summaries handed to skid_supervisor.notify

vars == <<pc, raised, limit, offset, result_length, records_list, requests,
          records, fetched, missing_coords, web_mercator_dfs, spatial_records,
          cleans, uncleaned, first_cleaned, points_layer,
          systems, invalid_pwsids, cleaned_systems_dataframe,
          loaded_sheet, loaded_links, links, duplicate_link_pwsids,
          cleaned_water_service_areas, all_systems, missing_geometries, merged_systems,
          final_systems, log, features_loaded, areas_loaded, notified>>

fetchVars == <<limit, offset, result_length, records_list, requests>>
pointVars == <<records, fetched, missing_coords, web_mercator_dfs, spatial_records,
               cleans, uncleaned, first_cleaned, points_layer>>
linkVars == <<loaded_links, links, duplicate_link_pwsids>>
mergeVars == <<cleaned_water_service_areas, all_systems, missing_geometries, merged_systems,
               final_systems>>
processVars == <<log, features_loaded, areas_loaded, notified>>
sheetVars == <<systems, invalid_pwsids, cleaned_systems_dataframe, loaded_sheet,
               linkVars, mergeVars, processVars>>

-----------------------------------------------------------------------------
(* Bounds *)

MaxLimit == 2          \* page sizes 0..MaxLimit
MaxRequests == 3       \* client.execute calls per fetch

-----------------------------------------------------------------------------
(* Helpers *)

RECURSIVE Flatten(_)
Flatten(ss) == IF ss = <<>> THEN <<>> ELSE Head(ss) \o Flatten(Tail(ss))

\* All sequences over S of length lo..hi
SeqsOf(S, lo, hi) == UNION {[1..n -> S] : n \in lo..hi}

\* df[mask]: the rows of df whose mask entry is true, in df's order
RECURSIVE BoolIndex(_, _)
BoolIndex(df, mask) ==
    IF df = <<>> THEN <<>>
    ELSE IF Head(mask) THEN <<Head(df)>> \o BoolIndex(Tail(df), Tail(mask))
    ELSE BoolIndex(Tail(df), Tail(mask))

\* pd.DataFrame(): no rows, no columns
EmptyFrame == <<>>

\* pd.DataFrame(list of dicts): one row per dict, in order, RangeIndex 0..n-1
DataFrame(list) == [i \in 1..Len(list) |-> [idx |-> i - 1, rec |-> list[i]]]

-----------------------------------------------------------------------------
(* PointData.load_records_from_graphql *)

\* The payloads the endpoint can return
RecVals == {"bar", "baz"}

\* The pages the endpoint can answer a request of `lim` records with: the
\* limit is the max number of records to return per chunk
Pages(lim) == SeqsOf(RecVals, 0, lim)

\* A faulty variant: loop until an empty page
LoopConditionNonEmpty == result_length > 0
\* while result_length == limit
LoopCondition == result_length = limit

\* A faulty variant: keep only the last page
ExtendReplace(list, page) == page
\* records_list.extend(result["getLccrMapUGRC"])
Extend(list, page) == list \o page

\* The variables of the components a specification leaves alone
FetchIdle ==
    /\ limit = 0
    /\ result_length = 0
    /\ offset = 0
    /\ records_list = <<>>
    /\ requests = <<>>

PointsIdle ==
    /\ records = EmptyFrame
    /\ fetched = EmptyFrame
    /\ missing_coords = EmptyFrame
    /\ web_mercator_dfs = <<>>
    /\ spatial_records = EmptyFrame
    /\ cleans = 0
    /\ uncleaned = EmptyFrame
    /\ first_cleaned = EmptyFrame
    /\ points_layer = EmptyFrame

LinksIdle ==
    /\ loaded_links = EmptyFrame
    /\ links = EmptyFrame
    /\ duplicate_link_pwsids = <<>>

MergeIdle ==
    /\ cleaned_water_service_areas = EmptyFrame
    /\ all_systems = EmptyFrame
    /\ missing_geometries = <<>>
    /\ merged_systems = EmptyFrame
    /\ final_systems = EmptyFrame

ProcessIdle ==
    /\ log = <<>>
    /\ features_loaded = 0
    /\ areas_loaded = 0
    /\ notified = 0

SheetIdle ==
    /\ systems = EmptyFrame
    /\ invalid_pwsids = <<>>
    /\ cleaned_systems_dataframe = EmptyFrame
    /\ loaded_sheet = EmptyFrame
    /\ LinksIdle
    /\ MergeIdle
    /\ ProcessIdle

InitFetch ==
    /\ pc = "fetch"
    /\ raised = "none"
    /\ limit \in 0..MaxLimit
    /\ result_length = limit
    /\ offset = 0
    /\ records_list = <<>>
    /\ requests = <<>>
    /\ PointsIdle
    /\ SheetIdle

\* One iteration of the while loop: a request and the bookkeeping after it
Execute ==
    /\ pc = "fetch"
    /\ LoopCondition
    /\ Len(requests) < MaxRequests
    /\ \E page \in Pages(limit) :
        /\ requests' = Append(requests, [offset |-> offset, limit |-> limit, page |-> page])
        /\ result_length' = Len(page)
        /\ offset' = offset + limit
        /\ records_list' = Extend(records_list, page)
    /\ UNCHANGED <<pc, raised, limit, pointVars, sheetVars>>

RequestError == "TransportError"

\* A faulty variant: the pages fetched before the failure are stored
StorePartial(recs, list) == DataFrame(list)
\* What self.records holds once client.execute has raised: the exception
\* leaves the method before self.records is assigned, records_list is lost
Unwound(recs, list) == recs

\* client.execute raises (once the transport has used up its retries): the
\* exception propagates out of load_records_from_graphql
ExecuteRaises ==
    /\ pc = "fetch"
    /\ LoopCondition
    /\ raised' = RequestError
    /\ pc' = "raised"
    /\ records' = Unwound(records, records_list)
    /\ UNCHANGED <<fetchVars, fetched, missing_coords, web_mercator_dfs, spatial_records,
                   cleans, uncleaned, first_cleaned, points_layer, sheetVars>>

\* The loop exits and the records are stored
StoreRecords ==
    /\ pc = "fetch"
    /\ ~LoopCondition
    /\ records' = DataFrame(records_list)
    /\ fetched' = records'
    /\ pc' = "fetched"
    /\ UNCHANGED <<raised, fetchVars, missing_coords, web_mercator_dfs, spatial_records,
                   cleans, uncleaned, first_cleaned, points_layer, sheetVars>>

NextFetch == Execute \/ ExecuteRaises \/ StoreRecords

SpecFetch == InitFetch /\ [][NextFetch]_vars

\* The method runs on: once the loop condition is false the assignment of
\* self.records is executed
SpecFetchLive == SpecFetch /\ WF_vars(StoreRecords)

-----------------------------------------------------------------------------
(* Claims about load_records_from_graphql *)

PagesReturned == [k \in 1..Len(requests) |-> requests[k].page]
TotalReturned == Len(Flatten(PagesReturned))

\* C1: the requests go out at offsets 0, n, 2n, ... in that order; no request
\* follows a page shorter than n; the fetch returns only right after a short
\* page; so with n >= 1 the number of requests is (records returned) div n + 1:
\* an exact multiple of n costs one extra, empty-yielding request, anything
\* else ends on the first short, non-empty page.
C1_OffsetsAndStop ==
    /\ \A k \in 1..Len(requests) :
        /\ requests[k].offset = (k - 1) * limit
        /\ requests[k].limit = limit
        /\ k < Len(requests) => Len(requests[k].page) = limit
    /\ pc = "fetched" =>
        /\ Len(requests) >= 1
        /\ Len(requests[Len(requests)].page) < limit
        /\ Len(requests) = (TotalReturned \div limit) + 1
        /\ (TotalReturned % limit = 0) <=> (requests[Len(requests)].page = <<>>)

C1_Witness ==
    /\ pc = "fetched"
    /\ limit = 2
    /\ TotalReturned = 4
    /\ Len(requests) = 3
    /\ requests[3].offset = 4

\* C2: when the fetch returns, records holds the concatenation of every page
\* returned, in request order, the short last page included, under the index
\* 0..n-1: nothing lost, duplicated or reordered.
C2_RecordsAreAllPages ==
    pc = "fetched" =>
        /\ Len(records) = TotalReturned
        /\ \A i \in 1..Len(records) :
            /\ records[i].idx = i - 1
            /\ records[i].rec = Flatten(PagesReturned)[i]

C2_Witness ==
    /\ pc = "fetched"
    /\ limit = 2
    /\ Len(requests) = 3
    /\ Len(requests[3].page) = 1
    /\ Len(records) = 5
    /\ records[1].rec # records[2].rec

\* Some page so far was shorter than the limit
ShortPageReturned == \E k \in 1..Len(requests) : Len(requests[k].page) < limit

\* C21: load_records_from_graphql returns if and only if the source returns a
\* page with fewer than limit records: it returns only after such a page,
\* after such a page it makes no further request and does return, and while
\* every page is full (an empty page for limit = 0 included) the loop
\* condition holds and the next request goes out, without any cap.
C21_ReturnsIffShortPage ==
    /\ [](pc = "fetched" => ShortPageReturned)
    /\ []((pc = "fetch" /\ ~ShortPageReturned) => result_length = limit)
    /\ []((pc = "fetch" /\ ShortPageReturned) => result_length # limit)
    /\ [](\A k \in 1..(Len(requests) - 1) : Len(requests[k].page) = limit)
    /\ [](limit = 0 => pc # "fetched")
    /\ (pc = "fetch" /\ ShortPageReturned) ~> (pc = "fetched")

C21_Witness ==
    /\ pc = "fetch"
    /\ limit = 0
    /\ Len(requests) = 3
    /\ \A k \in 1..3 : requests[k].page = <<>>
    /\ result_length = limit

\* C22: when a page request of load_records_from_graphql raises, the
\* exception leaves the method and PointData.records is what it was before
\* the call, the empty frame of the constructor: the pages fetched before
\* the failure are not stored.
C22_NoPartialResult ==
    (pc = "raised" /\ raised = RequestError) =>
        /\ records = EmptyFrame
        /\ fetched = EmptyFrame

C22_Witness ==
    /\ pc = "raised"
    /\ raised = RequestError
    /\ Len(requests) = 2
    /\ records_list # <<>>
    /\ records = EmptyFrame

-----------------------------------------------------------------------------
(* Cells *)

\* A coordinate cell: a float, or NaN/None (na)
Num(v) == [na |-> FALSE, v |-> v]
NaN == [na |-> TRUE, v |-> 0]

\* A text or integer cell.  kind is "None" (a missing value in an object
\* column), "NA" (pd.NA in an Int64 column), "str" (s: the characters) or
\* "int" (n: the value)
None == [kind |-> "None", s |-> <<>>, n |-> 0]
NA == [kind |-> "NA", s |-> <<>>, n |-> 0]
Str(s) == [kind |-> "str", s |-> s, n |-> 0]
Int64(n) == [kind |-> "int", s |-> <<>>, n |-> n]

IsNullCell(c) == c.kind \in {"None", "NA"}

DigitChars == <<"0", "1", "2", "3", "4", "5", "6", "7", "8", "9">>
IsDigit(c) == \E i \in 1..10 : DigitChars[i] = c
DigitVal(c) == (CHOOSE i \in 1..10 : DigitChars[i] = c) - 1

RECURSIVE DigitsValue(_)
DigitsValue(s) ==
    IF s = <<>> THEN 0
    ELSE DigitsValue(SubSeq(s, 1, Len(s) - 1)) * 10 + DigitVal(s[Len(s)])

AllDigits(s) == s # <<>> /\ \A i \in 1..Len(s) : IsDigit(s[i])

\* Python's int(str), which is what casting a string array to int64 calls
\* for each element: an optional sign, then digits
IsIntLiteral(s) ==
    /\ s # <<>>
    /\ IF s[1] \in {"+", "-"} THEN AllDigits(Tail(s)) ELSE AllDigits(s)
IntOf(s) ==
    IF s[1] = "-" THEN 0 - DigitsValue(Tail(s))
    ELSE IF s[1] = "+" THEN DigitsValue(Tail(s))
    ELSE DigitsValue(s)

\* str(int)
RECURSIVE NatToStr(_)
NatToStr(n) ==
    IF n < 10 THEN <<DigitChars[n + 1]>>
    ELSE NatToStr(n \div 10) \o <<DigitChars[(n % 10) + 1]>>
IntToStr(n) == IF n < 0 THEN <<"-">> \o NatToStr(0 - n) ELSE NatToStr(n)

-----------------------------------------------------------------------------
(* PointData.spatialize_point_data *)

MaxRecords == 3        \* rows fetched from the endpoint

WGS84 == 4326
UTM12N == 26912
WebMercator == 3857
LatitudeThreshold == 100

LatPool == {NaN, Num(40), Num(LatitudeThreshold), Num(123)}
LonPool == {NaN, Num(0)}
Zip84093 == <<"8", "4", "0", "9", "3">>
PointZipPool == {None, Str(Zip84093)}

PointRecs ==
    [latitude : LatPool, longitude : LonPool, pws_zipcode : PointZipPool,
     pws_population : {Str(<<"1", "0">>)}, system_id : {Str(<<"7">>)},
     serviceline_material_cassification : {"foo"}]

\* A faulty variant: & in place of |
IsMissingBoth(row) == row.rec.latitude.na /\ row.rec.longitude.na
\* records["latitude"].isna() | records["longitude"].isna()
IsMissing(row) == row.rec.latitude.na \/ row.rec.longitude.na
\* records.dropna(subset=["latitude", "longitude"]) keeps a row with both
HasCoords(row) == ~row.rec.latitude.na /\ ~row.rec.longitude.na

\* records["latitude"] < 100 (a comparison with NaN is False)
IsWgs(row) == ~row.rec.latitude.na /\ row.rec.latitude.v < LatitudeThreshold
\* records["latitude"] > 100
IsUtm(row) == ~row.rec.latitude.na /\ row.rec.latitude.v > LatitudeThreshold

\* gpd.GeoDataFrame(df, geometry=points_from_xy(longitude, latitude), crs=crs)
\* followed by to_crs(target): each row gets a point built from its own
\* coordinates in crs and reprojected to target
GeoDataFrame(df, crs, target) ==
    [i \in 1..Len(df) |->
        [idx |-> df[i].idx, rec |-> df[i].rec,
         SHAPE |-> [x |-> df[i].rec.longitude.v, y |-> df[i].rec.latitude.v,
                    from_crs |-> crs, crs |-> target]]]

\* A faulty variant: both frames appended without the emptiness checks
WebMercatorDfsKeepEmpty(wgs_data, utm_data) ==
    <<GeoDataFrame(wgs_data, WGS84, WebMercator), GeoDataFrame(utm_data, UTM12N, WebMercator)>>
\* web_mercator_dfs: the WGS84 frame if it has rows, then the UTM frame if it has
WebMercatorDfs(wgs_data, utm_data) ==
    (IF wgs_data # <<>> THEN <<GeoDataFrame(wgs_data, WGS84, WebMercator)>> ELSE <<>>)
    \o (IF utm_data # <<>> THEN <<GeoDataFrame(utm_data, UTM12N, WebMercator)>> ELSE <<>>)

KeyErrorLatitude == "KeyError: 'latitude'"
NoObjectsToConcatenate == "ValueError: No objects to concatenate"

InitPoints ==
    /\ pc = "spatialize"
    /\ raised = "none"
    /\ FetchIdle
    /\ \E list \in SeqsOf(PointRecs, 0, MaxRecords) : records = DataFrame(list)
    /\ fetched = records
    /\ missing_coords = EmptyFrame
    /\ web_mercator_dfs = <<>>
    /\ spatial_records = EmptyFrame
    /\ cleans = 0
    /\ uncleaned = EmptyFrame
    /\ first_cleaned = EmptyFrame
    /\ points_layer = EmptyFrame
    /\ SheetIdle

SpatializePointData ==
    /\ pc = "spatialize"
    /\ IF records = EmptyFrame
       THEN \* a frame built from no records has no "latitude" column
            /\ raised' = KeyErrorLatitude
            /\ pc' = "raised"
            /\ UNCHANGED <<records, missing_coords, web_mercator_dfs, spatial_records, uncleaned>>
       ELSE LET valid == BoolIndex(records, [i \in 1..Len(records) |-> HasCoords(records[i])])
                wgs_data == BoolIndex(valid, [i \in 1..Len(valid) |-> IsWgs(valid[i])])
                utm_data == BoolIndex(valid, [i \in 1..Len(valid) |-> IsUtm(valid[i])])
                dfs == WebMercatorDfs(wgs_data, utm_data)
            IN  /\ missing_coords' = BoolIndex(records, [i \in 1..Len(records) |-> IsMissing(records[i])])
                /\ records' = valid
                /\ web_mercator_dfs' = dfs
                /\ IF dfs = <<>>
                   THEN /\ raised' = NoObjectsToConcatenate
                        /\ pc' = "raised"
                        /\ UNCHANGED <<spatial_records, uncleaned>>
                   ELSE /\ spatial_records' = Flatten(dfs)
                        /\ uncleaned' = spatial_records'
                        /\ pc' = "clean"
                        /\ UNCHANGED raised
    /\ UNCHANGED <<fetchVars, fetched, cleans, first_cleaned, points_layer, sheetVars>>

-----------------------------------------------------------------------------
(* PointData.clean_point_data *)

MaxCleanRows == 2      \* rows of the table clean_point_data is applied to
MaxCleans == 2         \* applications of clean_point_data to one table
ZipLen == 5

Min(a, b) == IF a < b THEN a ELSE b

\* Series.astype(str): str() of each value, a missing one included
AsTypeStr(c) ==
    IF c.kind = "None" THEN <<"N", "o", "n", "e">>
    ELSE IF c.kind = "NA" THEN <<"<", "N", "A", ">">>
    ELSE IF c.kind = "int" THEN IntToStr(c.n)
    ELSE c.s

\* .str[:5]
StrSlice(s) == SubSeq(s, 1, Min(ZipLen, Len(s)))

\* .astype(str).str[:5], the string that .astype("Int64") then has to parse
ZipText(c) == StrSlice(AsTypeStr(c))

\* rename(columns={old: new}): a column that is not there is left alone
RenameColumn(rec, old, new) ==
    IF old \in DOMAIN rec
    THEN [c \in (DOMAIN rec \ {old}) \cup {new} |-> IF c = new THEN rec[old] ELSE rec[c]]
    ELSE rec

OldMaterialColumn == "serviceline_material_cassification"
NewMaterialColumn == "serviceline_material_cassificat"

Renamed(df) ==
    [i \in 1..Len(df) |->
        [df[i] EXCEPT !.rec = RenameColumn(@, OldMaterialColumn, NewMaterialColumn)]]

ZipsParse(df) == \A i \in 1..Len(df) : IsIntLiteral(ZipText(df[i].rec.pws_zipcode))

ZipsConverted(df) ==
    [i \in 1..Len(df) |->
        [df[i] EXCEPT !.rec.pws_zipcode = Int64(IntOf(ZipText(@)))]]

\* transform.DataCleaning.switch_to_nullable_int on one value: a missing value
\* becomes pd.NA, an integer stays, a string is parsed as a number
IntParses(c) == c.kind = "str" => IsIntLiteral(c.s)
NullableInt(c) ==
    IF IsNullCell(c) THEN NA
    ELSE IF c.kind = "int" THEN c
    ELSE Int64(IntOf(c.s))

IntsParse(df) ==
    \A i \in 1..Len(df) : IntParses(df[i].rec.pws_population) /\ IntParses(df[i].rec.system_id)

SwitchToNullableInt(df) ==
    [i \in 1..Len(df) |->
        [df[i] EXCEPT !.rec.pws_population = NullableInt(@),
                      !.rec.system_id = NullableInt(@)]]

InvalidLiteral == "ValueError: invalid literal for int() with base 10"
CannotConvert == "TypeError: Cannot convert one or more fields to nullable ints"

\* The body of clean_point_data; a raise leaves what the lines before it did
CleanEffect ==
    LET renamed == Renamed(spatial_records)
        zipped == ZipsConverted(renamed)
        cleaned == SwitchToNullableInt(zipped)
    IN  IF ~ZipsParse(renamed)
        THEN /\ spatial_records' = renamed
             /\ raised' = InvalidLiteral
             /\ pc' = "raised"
             /\ UNCHANGED <<cleans, first_cleaned>>
        ELSE IF ~IntsParse(zipped)
        THEN /\ spatial_records' = zipped
             /\ raised' = CannotConvert
             /\ pc' = "raised"
             /\ UNCHANGED <<cleans, first_cleaned>>
        ELSE /\ spatial_records' = cleaned
             /\ cleans' = cleans + 1
             /\ first_cleaned' = IF cleans = 0 THEN cleaned ELSE first_cleaned
             /\ pc' = "load"
             /\ UNCHANGED raised

CleanPointData ==
    /\ pc = "clean"
    /\ CleanEffect
    /\ UNCHANGED <<fetchVars, records, fetched, missing_coords, web_mercator_dfs,
                   uncleaned, points_layer, sheetVars>>

\* clean_point_data applied to its own output
CleanAgain ==
    /\ pc = "load"
    /\ cleans < MaxCleans
    /\ CleanEffect
    /\ UNCHANGED <<fetchVars, records, fetched, missing_coords, web_mercator_dfs,
                   uncleaned, points_layer, sheetVars>>

\* loader.truncate_and_load(point_data.spatial_records)
LoadPoints ==
    /\ pc = "load"
    /\ points_layer' = spatial_records
    /\ pc' = "points_loaded"
    /\ UNCHANGED <<raised, fetchVars, records, fetched, missing_coords, web_mercator_dfs,
                   spatial_records, cleans, uncleaned, first_cleaned, sheetVars>>

NextPoints == SpatializePointData \/ CleanPointData \/ LoadPoints

SpecPoints == InitPoints /\ [][NextPoints]_vars

ZipPlus4 == <<"8", "4", "0", "9", "3", "-", "1", "2", "3", "4">>
CleanZipPool ==
    {None, Str(Zip84093), Str(ZipPlus4), Str(<<"0", "8", "4", "0", "9">>), Str(<<"8", "4">>)}

CleanRecs ==
    [latitude : {Num(40)}, longitude : {Num(0)}, pws_zipcode : CleanZipPool,
     pws_population : {None, Str(<<"1", "0">>)}, system_id : {None, Str(<<"7">>)},
     serviceline_material_cassification : {"foo"}]

InitClean ==
    /\ pc = "clean"
    /\ raised = "none"
    /\ FetchIdle
    /\ records = EmptyFrame
    /\ fetched = EmptyFrame
    /\ missing_coords = EmptyFrame
    /\ web_mercator_dfs = <<>>
    /\ \E list \in SeqsOf(CleanRecs, 1, MaxCleanRows) :
        spatial_records = GeoDataFrame(DataFrame(list), WGS84, WebMercator)
    /\ cleans = 0
    /\ uncleaned = spatial_records
    /\ first_cleaned = EmptyFrame
    /\ points_layer = EmptyFrame
    /\ SheetIdle

NextClean == CleanPointData \/ CleanAgain

SpecClean == InitClean /\ [][NextClean]_vars

-----------------------------------------------------------------------------
(* Claims about spatialize_point_data *)

Range(seq) == {seq[i] : i \in 1..Len(seq)}
Idxs(df) == {df[i].idx : i \in 1..Len(df)}
RowsAt(df, idx) == {j \in 1..Len(df) : df[j].idx = idx}

\* spatialize_point_data has returned (the run is past it and it did not raise)
SpatializeReturned ==
    pc # "spatialize" /\ raised \notin {KeyErrorLatitude, NoObjectsToConcatenate}

\* C3: once spatialize_point_data has returned, every fetched row with both
\* coordinates is in exactly one group: the geographic one (EPSG 4326) if its
\* latitude is below 100, the projected one (EPSG 26912) otherwise, a latitude
\* of exactly 100 included.
C3_GroupByLatitude ==
    SpatializeReturned =>
        \A i \in 1..Len(fetched) :
            (~fetched[i].rec.latitude.na /\ ~fetched[i].rec.longitude.na) =>
                /\ Cardinality(RowsAt(spatial_records, fetched[i].idx)) = 1
                /\ \A j \in RowsAt(spatial_records, fetched[i].idx) :
                    spatial_records[j].SHAPE.from_crs =
                        IF fetched[i].rec.latitude.v < 100 THEN 4326 ELSE 26912

\* C24: once spatialize_point_data has returned, every fetched row is exactly
\* once in exactly one of spatial_records and missing_coords, so the two
\* lengths add up to the number of fetched rows, whatever the latitudes.
C24_RowConservation ==
    SpatializeReturned =>
        /\ Len(spatial_records) + Len(missing_coords) = Len(fetched)
        /\ \A i \in 1..Len(fetched) :
            Cardinality(RowsAt(spatial_records, fetched[i].idx))
                + Cardinality(RowsAt(missing_coords, fetched[i].idx)) = 1

\* C4: once spatialize_point_data has run, every fetched row with a null
\* latitude or a null longitude is in missing_coords as fetched and is not in
\* spatial_records, and no row with both coordinates is in missing_coords.
C4_MissingCoordsReported ==
    pc # "spatialize" =>
        \A i \in 1..Len(fetched) :
            IF fetched[i].rec.latitude.na \/ fetched[i].rec.longitude.na
            THEN /\ fetched[i] \in Range(missing_coords)
                 /\ fetched[i].idx \notin Idxs(spatial_records)
            ELSE fetched[i] \notin Range(missing_coords)

C4_Witness ==
    /\ pc = "clean"
    /\ Len(fetched) = 2
    /\ fetched[1].rec.latitude.na /\ ~fetched[1].rec.longitude.na
    /\ missing_coords = <<fetched[1]>>
    /\ Idxs(spatial_records) = {fetched[2].idx}

\* C5: the frames handed to pd.concat are the non-empty groups only, the
\* geographic one before the projected one; so in spatial_records every
\* geographic row precedes every projected row and the rows of a group keep
\* their fetched order.
C5_ConcatInput ==
    /\ \A k \in 1..Len(web_mercator_dfs) :
        /\ web_mercator_dfs[k] # <<>>
        /\ \A i \in 1..Len(web_mercator_dfs[k]) :
            web_mercator_dfs[k][i].SHAPE.from_crs = web_mercator_dfs[k][1].SHAPE.from_crs
    /\ Len(web_mercator_dfs) <= 2
    /\ Len(web_mercator_dfs) = 2 =>
        /\ web_mercator_dfs[1][1].SHAPE.from_crs = 4326
        /\ web_mercator_dfs[2][1].SHAPE.from_crs = 26912
    /\ SpatializeReturned =>
        /\ Len(spatial_records) = Len(Flatten(web_mercator_dfs))
        /\ \A i, j \in 1..Len(spatial_records) :
            i < j =>
                /\ spatial_records[i].idx = Flatten(web_mercator_dfs)[i].idx
                /\ ~(spatial_records[i].SHAPE.from_crs = 26912
                     /\ spatial_records[j].SHAPE.from_crs = 4326)
                /\ spatial_records[i].SHAPE.from_crs = spatial_records[j].SHAPE.from_crs
                    => spatial_records[i].idx < spatial_records[j].idx

C5_Witness ==
    /\ pc = "clean"
    /\ Len(web_mercator_dfs) = 1
    /\ Len(spatial_records) = 2
    /\ spatial_records[1].SHAPE.from_crs = 26912
    /\ spatial_records[1].idx < spatial_records[2].idx

\* C6: missing coordinates are not fatal: whatever was fetched, a set in which
\* every record lacks a coordinate and an empty set included,
\* spatialize_point_data returns and the run goes on to clean_point_data.
C6_MissingCoordsNonFatal ==
    raised \notin {KeyErrorLatitude, NoObjectsToConcatenate}

-----------------------------------------------------------------------------
(* Claims about clean_point_data *)

\* C7: clean_point_data maps every pws_zipcode to a nullable integer: a string
\* becomes the integer its first 5 characters spell, a missing value becomes
\* null, and neither raises.
C7_ZipToNullableInt ==
    /\ raised # InvalidLiteral
    /\ cleans >= 1 =>
        \A i \in 1..Len(uncleaned) :
            LET z == uncleaned[i].rec.pws_zipcode
                out == spatial_records[i].rec.pws_zipcode
            IN  /\ z.kind = "str" =>
                    out = Int64(IntOf(SubSeq(z.s, 1, Min(5, Len(z.s)))))
                /\ z.kind = "None" => out = NA

\* C8: clean_point_data is idempotent: applied to a table and then to its own
\* output, null ZIP, population and system_id values included, both
\* applications complete without error and the second changes nothing.
C8_CleanIdempotent ==
    /\ raised = "none"
    /\ cleans >= 2 => spatial_records = first_cleaned

-----------------------------------------------------------------------------
(* GoogleSheetData.clean_approved_systems *)

MaxSystems == 2        \* data rows of the approved-systems sheet

\* A timestamp cell: an instant, or NaN/NaT (na)
NaT == [na |-> TRUE, v |-> 0]
Instant(t) == [na |-> FALSE, v |-> t]

UpperChars ==
    <<"A", "B", "C", "D", "E", "F", "G", "H", "I", "J", "K", "L", "M",
      "N", "O", "P", "Q", "R", "S", "T", "U", "V", "W", "X", "Y", "Z">>
LowerChars ==
    <<"a", "b", "c", "d", "e", "f", "g", "h", "i", "j", "k", "l", "m",
      "n", "o", "p", "q", "r", "s", "t", "u", "v", "w", "x", "y", "z">>
\* str.lower() of one character
LowerChar(c) ==
    IF \E i \in 1..Len(UpperChars) : UpperChars[i] = c
    THEN LowerChars[CHOOSE i \in 1..Len(UpperChars) : UpperChars[i] = c]
    ELSE c
Lower(s) == [i \in 1..Len(s) |-> LowerChar(s[i])]

\* str.strip(chars): drop the leading and the trailing characters that are in chars
RECURSIVE LStrip(_, _)
LStrip(s, chars) ==
    IF s # <<>> /\ s[1] \in chars THEN LStrip(Tail(s), chars) ELSE s
RECURSIVE RStrip(_, _)
RStrip(s, chars) ==
    IF s # <<>> /\ s[Len(s)] \in chars THEN RStrip(SubSeq(s, 1, Len(s) - 1), chars) ELSE s
Strip(s, chars) == RStrip(LStrip(s, chars), chars)

UtahChars == {"u", "t", "a", "h"}

\* .str.lower().str.strip("utah"), the text .astype(int) then has to parse
PwsidText(s) == Strip(Lower(s), UtahChars)

\* Some character of s is a digit
HasDigit(s) == \E i \in 1..Len(s) : IsDigit(s[i])

\* A faulty variant: the pattern ^[^\d], which looks at the first character only
StartsWithNonDigit(s) == s # <<>> /\ ~IsDigit(s[1])
\* str.match(r"^[^\d]*$"): no character of s is a digit
MatchesNoDigits(s) == \A i \in 1..Len(s) : ~IsDigit(s[i])

IdPool ==
    {None,
     Str(<<"U", "t", "a", "h", "1", "2">>),
     Str(<<"1", "2">>),
     Str(<<"U", "T", "A", "H", "7">>),
     Str(<<"V", "a", "l">>),
     Str(<<"1", "2", "x">>)}
\* Time values: missing, or the instant pd.to_datetime parses the text to
TimePool == {NaT, Instant(1), Instant(2)}

SystemRecs ==
    {[c \in {"PWS ID", "Time", "System Name", "Approved", "SC, LC, on NTNC", "extra column"} |->
        CASE c = "PWS ID" -> id
          [] c = "Time" -> t
          [] c = "System Name" -> "foo"
          [] c = "Approved" -> "Accept"
          [] c = "SC, LC, on NTNC" -> "SC"
          [] c = "extra column" -> "yes"] : id \in IdPool, t \in TimePool}

\* self.systems as load_systems_from_sheet leaves it: the sheet's data rows
\* under the index labels 1, 2, ... (label 0 was the header row)
SheetFrame(list) == [i \in 1..Len(list) |-> [idx |-> i, rec |-> list[i]]]

HasPwsId(row) == ~IsNullCell(row.rec["PWS ID"])
\* The text of the identifier after .astype(str)
IdText(row) == AsTypeStr(row.rec["PWS ID"])
IsInvalidId(row) == MatchesNoDigits(IdText(row))
IsValidId(row) == ~MatchesNoDigits(IdText(row))

\* The row after the identifier and the time are cleaned, the columns renamed
\* and area_type added
ApprovedRow(row) ==
    [idx |-> row.idx,
     rec |-> [c \in {"PWSID", "submitted_time", "System Name", "Approved",
                     "SC, LC, on NTNC", "area_type"} |->
        CASE c = "PWSID" -> IntOf(PwsidText(IdText(row)))
          [] c = "submitted_time" -> row.rec["Time"]
          [] c = "area_type" -> "Approved System"
          [] OTHER -> row.rec[c]]]

Perms(n) == {p \in [1..n -> 1..n] : \A i, j \in 1..n : i # j => p[i] # p[j]}

\* p orders df as sort_values("submitted_time") may: ascending times, the rows
\* without a time last in their original order, ties in any order
IsTimeSorted(df, p) ==
    \A i, j \in 1..Len(df) :
        i < j =>
            LET a == df[p[i]].rec["submitted_time"]
                b == df[p[j]].rec["submitted_time"]
            IN  /\ ~(a.na /\ ~b.na)
                /\ (~a.na /\ ~b.na) => a.v <= b.v
                /\ (a.na /\ b.na) => p[i] < p[j]
SortOrders(df) == {p \in Perms(Len(df)) : IsTimeSorted(df, p)}

\* drop_duplicates(subset="PWSID", keep="last") keeps a row when no later row
\* has its PWSID
\* A faulty variant: keep="first"
KeepFirst(df, i) == \A j \in 1..(i - 1) : df[j].rec["PWSID"] # df[i].rec["PWSID"]
\* drop_duplicates(subset="PWSID", keep="last"): no later row has the PWSID of row i
KeepLast(df, i) == \A j \in (i + 1)..Len(df) : df[j].rec["PWSID"] # df[i].rec["PWSID"]

DropDuplicates(df) ==
    LET RECURSIVE D(_)
        D(i) == IF i > Len(df) THEN <<>>
                ELSE IF KeepLast(df, i) THEN <<df[i]>> \o D(i + 1) ELSE D(i + 1)
    IN D(1)

InitApproved ==
    /\ pc = "clean_approved"
    /\ raised = "none"
    /\ FetchIdle
    /\ PointsIdle
    /\ \E list \in SeqsOf(SystemRecs, 0, MaxSystems) : systems = SheetFrame(list)
    /\ invalid_pwsids = <<>>
    /\ cleaned_systems_dataframe = EmptyFrame
    /\ loaded_sheet = EmptyFrame
    /\ LinksIdle
    /\ MergeIdle
    /\ ProcessIdle

CleanApprovedSystems ==
    /\ pc = "clean_approved"
    /\ LET non_na_systems == BoolIndex(systems, [i \in 1..Len(systems) |-> HasPwsId(systems[i])])
           invalid == BoolIndex(non_na_systems, [i \in 1..Len(non_na_systems) |-> IsInvalidId(non_na_systems[i])])
           valid == BoolIndex(non_na_systems, [i \in 1..Len(non_na_systems) |-> IsValidId(non_na_systems[i])])
       IN  /\ invalid_pwsids' =
                IF invalid # <<>>
                THEN [i \in 1..Len(invalid) |-> IdText(invalid[i])]
                ELSE invalid_pwsids
           /\ IF \E i \in 1..Len(valid) : ~IsIntLiteral(PwsidText(IdText(valid[i])))
              THEN /\ raised' = InvalidLiteral
                   /\ pc' = "raised"
                   /\ UNCHANGED cleaned_systems_dataframe
              ELSE LET cleaned == [i \in 1..Len(valid) |-> ApprovedRow(valid[i])]
                   IN  \E p \in SortOrders(cleaned) :
                        /\ cleaned_systems_dataframe' =
                            DropDuplicates([i \in 1..Len(cleaned) |-> cleaned[p[i]]])
                        /\ pc' = "approved_cleaned"
                        /\ UNCHANGED raised
    /\ UNCHANGED <<fetchVars, pointVars, systems, loaded_sheet, linkVars, mergeVars,
                   processVars>>

NextApproved == CleanApprovedSystems

SpecApproved == InitApproved /\ [][NextApproved]_vars

-----------------------------------------------------------------------------
(* Claims about clean_approved_systems *)

\* The PWSID an input row is cleaned to (for a row whose identifier has a digit)
PwsidOf(row) == IntOf(PwsidText(AsTypeStr(row.rec["PWS ID"])))
\* The input rows that carry an identifier with a digit in it
ValidInputs ==
    {i \in 1..Len(systems) :
        ~IsNullCell(systems[i].rec["PWS ID"]) /\ HasDigit(systems[i].rec["PWS ID"].s)}

\* C9: after clean_approved_systems each PWSID is in at most one row of
\* cleaned_systems_dataframe, every identifier of a valid input row is in it,
\* and the row that survives for a PWSID has the maximum submitted_time among
\* the valid input rows with that identifier.
C9_LatestSurvives ==
    pc = "approved_cleaned" =>
        /\ \A i, j \in 1..Len(cleaned_systems_dataframe) :
            i # j => cleaned_systems_dataframe[i].rec["PWSID"]
                        # cleaned_systems_dataframe[j].rec["PWSID"]
        /\ \A q \in ValidInputs :
            \E i \in 1..Len(cleaned_systems_dataframe) :
                LET r == cleaned_systems_dataframe[i]
                IN  /\ r.rec["PWSID"] = PwsidOf(systems[q])
                    /\ r.idx \in {systems[k].idx : k \in ValidInputs}
                    /\ ~systems[q].rec["Time"].na =>
                        /\ ~r.rec["submitted_time"].na
                        /\ systems[q].rec["Time"].v <= r.rec["submitted_time"].v

\* C10: once clean_approved_systems has run, every non-null identifier without
\* a digit is listed in invalid_pwsids and its row is not in
\* cleaned_systems_dataframe, and no identifier with a digit is listed.
C10_InvalidIdsReported ==
    pc # "clean_approved" =>
        \A i \in 1..Len(systems) :
            LET id == systems[i].rec["PWS ID"]
            IN  ~IsNullCell(id) =>
                    IF HasDigit(id.s)
                    THEN id.s \notin Range(invalid_pwsids)
                    ELSE /\ id.s \in Range(invalid_pwsids)
                         /\ systems[i].idx \notin Idxs(cleaned_systems_dataframe)

C10_Witness ==
    /\ pc = "approved_cleaned"
    /\ Len(systems) = 2
    /\ invalid_pwsids = <<<<"V", "a", "l">>>>
    /\ Len(cleaned_systems_dataframe) = 1
    /\ cleaned_systems_dataframe[1].rec["PWSID"] = 12

-----------------------------------------------------------------------------
(* GoogleSheetData.clean_system_links *)

MaxLinks == 4          \* rows of the links sheet

\* Identifier cells of the links sheet: blank, two systems, and a value
\* without a digit
LinkIdPool ==
    {Str(<<>>),
     Str(<<"U", "t", "a", "h", "1", "2">>),
     Str(<<"U", "T", "A", "H", "7">>),
     Str(<<"V", "a", "l">>)}
LinkNamePool == {Str(<<"f", "o", "o">>), Str(<<"b", "a", "r">>)}
LinkUrl == Str(<<"l", "i", "n", "k">>)

\* The rows of the links sheet; the name varies where the row is kept
LinkRecs ==
    {rec \in {[c \in {"PWSID", "Water Systme Name", "Interactive map link", "extra column"} |->
                CASE c = "PWSID" -> id
                  [] c = "Water Systme Name" -> name
                  [] c = "Interactive map link" -> LinkUrl
                  [] OTHER -> Str(<<"x">>)] :
               id \in LinkIdPool, name \in LinkNamePool} :
        HasDigit(rec["PWSID"].s) \/ rec["Water Systme Name"] = Str(<<"f", "o", "o">>)}

\* The frame the sheet loader returns: a default RangeIndex
RangeFrame(list) == [i \in 1..Len(list) |-> [idx |-> i - 1, rec |-> list[i]]]

\* A faulty variant: the empty strings stay
KeepEmpty(cell) == cell
\* replace("", np.nan) on one cell
ReplaceEmpty(cell) == IF cell.kind = "str" /\ cell.s = <<>> THEN None ELSE cell
ReplaceEmptyRow(row) ==
    [idx |-> row.idx, rec |-> [c \in DOMAIN row.rec |-> ReplaceEmpty(row.rec[c])]]

\* self.links[["PWSID", "Water Systme Name", "Interactive map link"]]
LinkSubset(row) ==
    [idx |-> row.idx,
     rec |-> [c \in {"PWSID", "Water Systme Name", "Interactive map link"} |-> row.rec[c]]]

\* The row after the identifier is cleaned, the columns renamed, area_type
\* added and the columns reindexed
LinkRow(row) ==
    [idx |-> row.idx,
     rec |-> [c \in {"PWSID", "System Name", "link", "area_type"} |->
        CASE c = "PWSID" -> IntOf(PwsidText(row.rec["PWSID"].s))
          [] c = "System Name" -> row.rec["Water Systme Name"]
          [] c = "link" -> row.rec["Interactive map link"]
          [] OTHER -> "Link"]]

\* Series.duplicated(keep=False): another row has the PWSID of row i
Duplicated(df, i) == \E j \in 1..Len(df) : j # i /\ df[j].rec["PWSID"] = df[i].rec["PWSID"]

\* {row["System Name"]: row["PWSID"] for _, row in duplicated_links.iterrows()}:
\* a later row with the same name overwrites the entry of an earlier one
NameToPwsid(df) ==
    [name \in {df[i].rec["System Name"] : i \in 1..Len(df)} |->
        LET last == CHOOSE i \in 1..Len(df) :
                        /\ df[i].rec["System Name"] = name
                        /\ \A j \in (i + 1)..Len(df) : df[j].rec["System Name"] # name
        IN  df[last].rec["PWSID"]]

InitLinks ==
    /\ FetchIdle
    /\ PointsIdle
    /\ pc = "clean_links"
    /\ raised = "none"
    /\ systems = EmptyFrame
    /\ invalid_pwsids = <<>>
    /\ cleaned_systems_dataframe = EmptyFrame
    /\ loaded_sheet = EmptyFrame
    /\ \E list \in SeqsOf(LinkRecs, 0, MaxLinks) :
        /\ loaded_links = RangeFrame(list)
        /\ links = RangeFrame(list)
    /\ duplicate_link_pwsids = <<>>
    /\ MergeIdle
    /\ ProcessIdle

CleanSystemLinks ==
    /\ pc = "clean_links"
    /\ LET replaced == [i \in 1..Len(links) |-> ReplaceEmptyRow(links[i])]
           non_na == BoolIndex(replaced,
                        [i \in 1..Len(replaced) |-> ~IsNullCell(replaced[i].rec["PWSID"])])
           subset == [i \in 1..Len(non_na) |-> LinkSubset(non_na[i])]
       IN  IF \E i \in 1..Len(subset) : ~IsIntLiteral(PwsidText(subset[i].rec["PWSID"].s))
           THEN /\ raised' = InvalidLiteral
                /\ pc' = "raised"
                /\ links' = subset
                /\ UNCHANGED duplicate_link_pwsids
           ELSE LET cleaned == [i \in 1..Len(subset) |-> LinkRow(subset[i])]
                    duplicated_links ==
                        BoolIndex(cleaned, [i \in 1..Len(cleaned) |-> Duplicated(cleaned, i)])
                IN  /\ duplicate_link_pwsids' =
                        IF duplicated_links # <<>>
                        THEN NameToPwsid(duplicated_links)
                        ELSE duplicate_link_pwsids
                    /\ links' = DropDuplicates(cleaned)
                    /\ pc' = "links_cleaned"
                    /\ UNCHANGED raised
    /\ UNCHANGED <<fetchVars, pointVars, systems, invalid_pwsids, cleaned_systems_dataframe,
                   loaded_sheet, loaded_links, mergeVars, processVars>>

NextLinks == CleanSystemLinks

SpecLinks == InitLinks /\ [][NextLinks]_vars

-----------------------------------------------------------------------------
(* Claims about the identifiers of the two sheets *)

\* C11: an invalid identifier is never fatal: whatever the identifier cells
\* of the sheet are, also one that keeps a non-digit character once the prefix
\* is stripped, the cleaning completes without raising.
C11_InvalidIdNeverFatal == ~(pc = "raised" /\ raised = InvalidLiteral)

\* The rows of the links sheet with a non-blank identifier
NonBlankLinks == {i \in 1..Len(loaded_links) : loaded_links[i].rec["PWSID"].s # <<>>}
LinkIdOf(i) == IntOf(PwsidText(loaded_links[i].rec["PWSID"].s))
LinkNameOf(i) == loaded_links[i].rec["Water Systme Name"]
SharesLinkId(i) == \E j \in NonBlankLinks : j # i /\ LinkIdOf(j) = LinkIdOf(i)
Reported(i) ==
    /\ LinkNameOf(i) \in DOMAIN duplicate_link_pwsids
    /\ duplicate_link_pwsids[LinkNameOf(i)] = LinkIdOf(i)

\* C12: after clean_system_links, for every non-blank row whose normalized
\* identifier occurs in more than one row, duplicate_link_pwsids maps the
\* row's system name to the row's identifier, and a row whose identifier is
\* unique is not in the report.
C12_AllDuplicatesReported ==
    pc = "links_cleaned" =>
        \A i \in NonBlankLinks : Reported(i) <=> SharesLinkId(i)

\* C13: after clean_system_links, links has exactly one row for each distinct
\* normalized PWSID of the non-blank input rows, that row is the last input
\* row with the identifier, the rows with a blank identifier are gone, and
\* every row has area_type "Link" and the columns PWSID, System Name, link and
\* area_type only.
C13_OneLinkPerPwsid ==
    pc = "links_cleaned" =>
        /\ {links[k].rec["PWSID"] : k \in 1..Len(links)} = {LinkIdOf(i) : i \in NonBlankLinks}
        /\ \A k, m \in 1..Len(links) : k # m => links[k].rec["PWSID"] # links[m].rec["PWSID"]
        /\ \A k \in 1..Len(links) :
            /\ DOMAIN links[k].rec = {"PWSID", "System Name", "link", "area_type"}
            /\ links[k].rec["area_type"] = "Link"
            /\ \E i \in NonBlankLinks :
                /\ loaded_links[i].idx = links[k].idx
                /\ LinkIdOf(i) = links[k].rec["PWSID"]
                /\ LinkNameOf(i) = links[k].rec["System Name"]
                /\ loaded_links[i].rec["Interactive map link"] = links[k].rec["link"]
                /\ \A j \in NonBlankLinks : LinkIdOf(j) = LinkIdOf(i) => j <= i
        /\ \A k, m \in 1..Len(links) : k < m => links[k].idx < links[m].idx

C13_Witness ==
    /\ pc = "links_cleaned"
    /\ Len(loaded_links) = 3
    /\ loaded_links[1].rec["PWSID"].s = <<"U", "t", "a", "h", "1", "2">>
    /\ loaded_links[2].rec["PWSID"].s = <<>>
    /\ loaded_links[3].rec["PWSID"].s = <<"U", "t", "a", "h", "1", "2">>
    /\ LinkNameOf(1) # LinkNameOf(3)
    /\ Len(links) = 1
    /\ links[1].idx = 2
    /\ links[1].rec["System Name"] = LinkNameOf(3)

-----------------------------------------------------------------------------
(* GoogleSheetData.merge_systems_and_geometries *)

MaxAreas == 2          \* polygons of the water service areas layer

\* The PWSIDs of the two sheets, and those of the polygons: one system has no
\* row in either sheet
PwsidPool == {7, 12}
AreaPwsidPool == {7, 12, 34}

\* The sequences without repetition over S
DistinctSeqs(S) ==
    {q \in SeqsOf(S, 0, Cardinality(S)) : \A i, j \in 1..Len(q) : i # j => q[i] # q[j]}

\* A row as clean_approved_systems leaves it
ApprovedSystem(id) ==
    [c \in {"PWSID", "submitted_time", "System Name", "Approved", "SC, LC, on NTNC",
            "area_type"} |->
        CASE c = "PWSID" -> id
          [] c = "submitted_time" -> Instant(1)
          [] c = "System Name" -> Str(<<"f", "o", "o">>)
          [] c = "Approved" -> Str(<<"Y", "e", "s">>)
          [] c = "SC, LC, on NTNC" -> Str(<<"S", "C">>)
          [] OTHER -> "Approved System"]

\* A row as clean_system_links leaves it
LinkSystem(id) ==
    [c \in {"PWSID", "System Name", "link", "area_type"} |->
        CASE c = "PWSID" -> id
          [] c = "System Name" -> Str(<<"b", "e", "e">>)
          [] c = "link" -> LinkUrl
          [] OTHER -> "Link"]

\* A polygon as load_system_geometries leaves it
ServiceArea(id, fid) ==
    [c \in {"PWSID", "FID", "SHAPE"} |->
        CASE c = "PWSID" -> id
          [] c = "FID" -> Num(fid)
          [] OTHER -> Str(<<"p", "o", "l", "y">>)]

AllSystemsColumns ==
    {"PWSID", "submitted_time", "System Name", "Approved", "SC, LC, on NTNC", "area_type",
     "link"}

\* The cell pd.concat fills in for a column a frame does not have
MissingCell(c) == IF c = "submitted_time" THEN NaT ELSE None
ConcatRec(rec) ==
    [c \in AllSystemsColumns |-> IF c \in DOMAIN rec THEN rec[c] ELSE MissingCell(c)]

\* A faulty variant: the links whose PWSID is an approved system's are left out
ConcatDistinct(a, b) ==
    LET fresh == BoolIndex(b, [i \in 1..Len(b) |->
                        \A j \in 1..Len(a) : a[j].rec["PWSID"] # b[i].rec["PWSID"]])
        stacked == a \o fresh
    IN  [i \in 1..Len(stacked) |-> [idx |-> i - 1, rec |-> ConcatRec(stacked[i].rec)]]
\* pd.concat([a, b], ignore_index=True)
Concat(a, b) ==
    LET stacked == a \o b
    IN  [i \in 1..Len(stacked) |-> [idx |-> i - 1, rec |-> ConcatRec(stacked[i].rec)]]

\* One merged row: the cells of the left row and those of the polygon
Joined(rec, area) ==
    [c \in AllSystemsColumns \cup {"FID", "SHAPE"} |->
        IF c \in AllSystemsColumns THEN rec[c] ELSE area[c]]
\* The merged row of a left row without a polygon
Unjoined(rec) ==
    [c \in AllSystemsColumns \cup {"FID", "SHAPE"} |->
        CASE c \in AllSystemsColumns -> rec[c]
          [] c = "FID" -> NaN
          [] OTHER -> None]

\* The polygons with the PWSID of a left row, in the order of the right frame
Matches(rec, right) ==
    BoolIndex(right, [j \in 1..Len(right) |-> right[j].rec["PWSID"] = rec["PWSID"]])

\* A faulty variant: how="inner", a left row without a polygon is left out
InnerMerge(left, right) ==
    LET recs == Flatten([i \in 1..Len(left) |->
                    LET found == Matches(left[i].rec, right)
                    IN  [j \in 1..Len(found) |-> Joined(left[i].rec, found[j].rec)]])
    IN  [k \in 1..Len(recs) |-> [idx |-> k - 1, rec |-> recs[k]]]
\* left.merge(right, on="PWSID", how="left"): the left rows in their order,
\* one merged row for each polygon with the PWSID, one without a polygon if
\* there is none
LeftMerge(left, right) ==
    LET recs == Flatten([i \in 1..Len(left) |->
                    LET found == Matches(left[i].rec, right)
                    IN  IF found = <<>> THEN <<Unjoined(left[i].rec)>>
                        ELSE [j \in 1..Len(found) |-> Joined(left[i].rec, found[j].rec)]])
    IN  [k \in 1..Len(recs) |-> [idx |-> k - 1, rec |-> recs[k]]]

\* p orders df as sort_values(by="PWSID") may: ascending, ties in any order
IsPwsidSorted(df, p) ==
    \A i, j \in 1..Len(df) : i < j => df[p[i]].rec["PWSID"] <= df[p[j]].rec["PWSID"]

\* {row["PWSID"]: (row["System Name"], row["SC, LC, on NTNC"], row["area_type"])
\*  for _, row in ...iterrows()}: a later row with the same PWSID overwrites
\* the entry of an earlier one
PwsidToSystem(df) ==
    [id \in {df[i].rec["PWSID"] : i \in 1..Len(df)} |->
        LET last == CHOOSE i \in 1..Len(df) :
                        /\ df[i].rec["PWSID"] = id
                        /\ \A j \in (i + 1)..Len(df) : df[j].rec["PWSID"] # id
        IN  <<df[last].rec["System Name"], df[last].rec["SC, LC, on NTNC"],
              df[last].rec["area_type"]>>]

InitMerge ==
    /\ FetchIdle
    /\ PointsIdle
    /\ pc = "merge"
    /\ raised = "none"
    /\ systems = EmptyFrame
    /\ invalid_pwsids = <<>>
    /\ loaded_sheet = EmptyFrame
    /\ \E ids \in DistinctSeqs(PwsidPool) :
        cleaned_systems_dataframe = SheetFrame([i \in 1..Len(ids) |-> ApprovedSystem(ids[i])])
    /\ loaded_links = EmptyFrame
    /\ \E ids \in DistinctSeqs(PwsidPool) :
        links = RangeFrame([i \in 1..Len(ids) |-> LinkSystem(ids[i])])
    /\ duplicate_link_pwsids = <<>>
    /\ \E ids \in SeqsOf(AreaPwsidPool, 0, MaxAreas) :
        cleaned_water_service_areas =
            RangeFrame([i \in 1..Len(ids) |-> ServiceArea(ids[i], i)])
    /\ all_systems = EmptyFrame
    /\ missing_geometries = <<>>
    /\ merged_systems = EmptyFrame
    /\ final_systems = EmptyFrame
    /\ ProcessIdle

MergeSystemsAndGeometries ==
    /\ pc = "merge"
    /\ LET stacked == Concat(cleaned_systems_dataframe, links)
           merged == LeftMerge(stacked, cleaned_water_service_areas)
           no_area == BoolIndex(merged, [i \in 1..Len(merged) |-> merged[i].rec["FID"].na])
       IN  /\ all_systems' = stacked
           /\ IF no_area # <<>>
              THEN \E p \in {q \in Perms(Len(no_area)) : IsPwsidSorted(no_area, q)} :
                    missing_geometries' =
                        PwsidToSystem([i \in 1..Len(no_area) |-> no_area[p[i]]])
              ELSE UNCHANGED missing_geometries
           /\ final_systems' =
                BoolIndex(merged, [i \in 1..Len(merged) |-> ~merged[i].rec["FID"].na])
           /\ merged_systems' =
                BoolIndex(merged, [i \in 1..Len(merged) |-> ~merged[i].rec["FID"].na])
    /\ pc' = "merged"
    /\ UNCHANGED <<fetchVars, pointVars, raised, systems, invalid_pwsids,
                   cleaned_systems_dataframe, loaded_sheet, linkVars,
                   cleaned_water_service_areas, processVars>>

NextMerge == MergeSystemsAndGeometries

SpecMerge == InitMerge /\ [][NextMerge]_vars

-----------------------------------------------------------------------------
(* Claims about merge_systems_and_geometries *)

PwsidsOf(df) == {df[i].rec["PWSID"] : i \in 1..Len(df)}
UnionPwsids == PwsidsOf(cleaned_systems_dataframe) \cup PwsidsOf(links)
AreaPwsids == PwsidsOf(cleaned_water_service_areas)
RowsWith(df, id) == {i \in 1..Len(df) : df[i].rec["PWSID"] = id}

\* C14: after merge_systems_and_geometries every identifier of the approved
\* systems or the links that the geometry table does not have is a key of
\* missing_geometries and is in no row of final_systems, and no identifier
\* with a polygon is a key of missing_geometries.
C14_UnmatchedReportedAndDropped ==
    pc = "merged" =>
        /\ \A id \in UnionPwsids \ AreaPwsids :
            /\ id \in DOMAIN missing_geometries
            /\ RowsWith(final_systems, id) = {}
        /\ \A id \in UnionPwsids \cap AreaPwsids : id \notin DOMAIN missing_geometries
        /\ \A k \in 1..Len(final_systems) : ~final_systems[k].rec["FID"].na

C14_Witness ==
    /\ pc = "merged"
    /\ UnionPwsids = {7, 12}
    /\ AreaPwsids = {12, 34}
    /\ DOMAIN missing_geometries = {7}
    /\ PwsidsOf(final_systems) = {12}

\* C15 as the claim states it: after the merge every identifier that is both
\* in the approved systems or the links and in the geometry table is in
\* exactly one row of final_systems.
C15_ExactlyOneRow ==
    pc = "merged" =>
        \A id \in UnionPwsids \cap AreaPwsids : Cardinality(RowsWith(final_systems, id)) = 1

\* C15, amended: after the merge every identifier that is both in the
\* approved systems or the links and in the geometry table is in one row of
\* final_systems for each pair of a stacked row and a polygon with that
\* identifier: exactly one row when the identifier is in one of the two sets
\* only and has one polygon, two when it is in both sets, and as many again
\* for each further polygon.
C15_OneRowPerPair ==
    pc = "merged" =>
        \A id \in UnionPwsids \cap AreaPwsids :
            /\ Cardinality(RowsWith(final_systems, id)) =
                (Cardinality(RowsWith(cleaned_systems_dataframe, id))
                    + Cardinality(RowsWith(links, id)))
                * Cardinality(RowsWith(cleaned_water_service_areas, id))
            /\ Cardinality(RowsWith(cleaned_systems_dataframe, id)) <= 1
            /\ Cardinality(RowsWith(links, id)) <= 1

C15_Witness ==
    /\ pc = "merged"
    /\ 12 \in PwsidsOf(cleaned_systems_dataframe) \cap PwsidsOf(links)
    /\ Cardinality(RowsWith(cleaned_water_service_areas, 12)) = 2
    /\ Cardinality(RowsWith(final_systems, 12)) = 4
    /\ 7 \in PwsidsOf(links) \ PwsidsOf(cleaned_systems_dataframe)

AreaTypesOf(df, id) == {df[i].rec["area_type"] : i \in RowsWith(df, id)}

\* C23: the union merge_systems_and_geometries builds is the approved systems
\* followed by the links, row for row, nothing deduplicated across the two:
\* an identifier in both has two rows in the union, one "Approved System" and
\* one "Link", and both go through the left join: with a polygon both are in
\* final_systems, without one neither is and the identifier is reported.
C23_UnionStacksBoth ==
    pc = "merged" =>
        LET n == Len(cleaned_systems_dataframe)
        IN  /\ Len(all_systems) = n + Len(links)
            /\ \A i \in 1..n :
                \A c \in DOMAIN cleaned_systems_dataframe[i].rec :
                    all_systems[i].rec[c] = cleaned_systems_dataframe[i].rec[c]
            /\ \A i \in 1..Len(links) :
                \A c \in DOMAIN links[i].rec : all_systems[n + i].rec[c] = links[i].rec[c]
            /\ \A id \in PwsidsOf(cleaned_systems_dataframe) \cap PwsidsOf(links) :
                /\ Cardinality(RowsWith(all_systems, id)) = 2
                /\ AreaTypesOf(all_systems, id) = {"Approved System", "Link"}
                /\ IF id \in AreaPwsids
                   THEN AreaTypesOf(final_systems, id) = {"Approved System", "Link"}
                   ELSE /\ RowsWith(final_systems, id) = {}
                        /\ id \in DOMAIN missing_geometries

C23_Witness ==
    /\ pc = "merged"
    /\ PwsidsOf(cleaned_systems_dataframe) = {7, 12}
    /\ PwsidsOf(links) = {12}
    /\ Cardinality(RowsWith(cleaned_water_service_areas, 12)) = 1
    /\ Cardinality(RowsWith(all_systems, 12)) = 2
    /\ Cardinality(RowsWith(final_systems, 12)) = 2
    /\ AreaTypesOf(final_systems, 12) = {"Approved System", "Link"}

\* C16: after the merge every stacked row without a polygon has its own
\* (System Name, classification, area_type) in missing_geometries under its
\* identifier, also when an approved system and a link without a polygon
\* share the identifier.
C16_EachUnmatchedRowItemized ==
    pc = "merged" =>
        \A i \in 1..Len(all_systems) :
            LET rec == all_systems[i].rec
            IN  rec["PWSID"] \notin AreaPwsids =>
                    /\ rec["PWSID"] \in DOMAIN missing_geometries
                    /\ missing_geometries[rec["PWSID"]] =
                        <<rec["System Name"], rec["SC, LC, on NTNC"], rec["area_type"]>>

-----------------------------------------------------------------------------
(* GoogleSheetData.load_systems_from_sheet *)

MaxSheetRows == 2      \* rows of the worksheet below its header row

\* The header row of the worksheet.  A text that becomes a column name is a
\* string, a text that stays a cell is a Str cell.
HeaderPool == {<<"PWS ID", "Time">>, <<"Time", "PWS ID">>, <<"PWS ID", "">>}
SheetCellPool == {Str(<<>>), Str(<<"1", "2">>), Str(<<"U", "t", "a", "h", "1", "2">>)}

\* The frame the sheet loader returns: the header row of the worksheet is its
\* first row, the rows below follow, each a tuple of cells by position
LoadedSheets ==
    {<<>>} \cup
    UNION {{RangeFrame(<<header>> \o rows) :
                rows \in SeqsOf([1..Len(header) -> SheetCellPool], 0, MaxSheetRows)} :
           header \in HeaderPool}

IndexErrorOutOfBounds == "IndexError: single positional indexer is out-of-bounds"

\* A row below the header under the promoted column names, "" replaced by NaN
NamedRow(row, columns) ==
    [idx |-> row.idx,
     rec |-> [c \in Range(columns) |->
                ReplaceEmpty(row.rec[CHOOSE j \in 1..Len(columns) : columns[j] = c])]]

InitLoad ==
    /\ FetchIdle
    /\ PointsIdle
    /\ pc = "load_systems"
    /\ raised = "none"
    /\ systems = EmptyFrame
    /\ invalid_pwsids = <<>>
    /\ cleaned_systems_dataframe = EmptyFrame
    /\ loaded_sheet \in LoadedSheets
    /\ LinksIdle
    /\ MergeIdle
    /\ ProcessIdle

LoadSystemsFromSheet ==
    /\ pc = "load_systems"
    /\ IF loaded_sheet = <<>>
       THEN /\ raised' = IndexErrorOutOfBounds
            /\ pc' = "raised"
            /\ systems' = loaded_sheet
       ELSE LET columns == loaded_sheet[1].rec
                below == Tail(loaded_sheet)
            IN  /\ systems' = [i \in 1..Len(below) |-> NamedRow(below[i], columns)]
                /\ pc' = "systems_loaded"
                /\ UNCHANGED raised
    /\ UNCHANGED <<fetchVars, pointVars, invalid_pwsids, cleaned_systems_dataframe,
                   loaded_sheet, linkVars, mergeVars, processVars>>

NextLoad == LoadSystemsFromSheet

SpecLoad == InitLoad /\ [][NextLoad]_vars

\* C17: load_systems_from_sheet makes the first row of the returned data the
\* column names and removes that row: one row less, the other rows kept in
\* their order with their cells under the promoted names, and every
\* empty-string cell replaced by the null value.
C17_HeaderPromoted ==
    pc = "systems_loaded" =>
        /\ Len(systems) = Len(loaded_sheet) - 1
        /\ \A i \in 1..Len(systems) :
            /\ systems[i].idx = loaded_sheet[i + 1].idx
            /\ DOMAIN systems[i].rec = Range(loaded_sheet[1].rec)
            /\ \A j \in 1..Len(loaded_sheet[1].rec) :
                LET was == loaded_sheet[i + 1].rec[j]
                    is == systems[i].rec[loaded_sheet[1].rec[j]]
                IN  IF was = Str(<<>>) THEN is = None ELSE is = was

C17_Witness ==
    /\ pc = "systems_loaded"
    /\ loaded_sheet[1].rec = <<"Time", "PWS ID">>
    /\ Len(systems) = 2
    /\ systems[1].rec["PWS ID"] = None
    /\ systems[1].rec["Time"] = Str(<<"1", "2">>)
    /\ systems[2].rec["PWS ID"] = Str(<<"U", "t", "a", "h", "1", "2">>)
    /\ systems[2].idx = 2

-----------------------------------------------------------------------------
(* GoogleSheetData.clean_dataframe_for_agol *)

MaxFinalRows == 2      \* rows of final_systems

\* Column names, as their characters
ColPwsid == <<"P", "W", "S", "I", "D">>
ColSystemName == <<"S", "y", "s", "t", "e", "m", " ", "N", "a", "m", "e">>
ColClass == <<"S", "C", ",", " ", "L", "C">>
ColFid == <<"F", "I", "D">>
ColLink == <<"l", "i", "n", "k">>
ColShape == <<"S", "H", "A", "P", "E">>
ColShapeArea == <<"S", "h", "a", "p", "e", "_", "_", "A", "r", "e", "a">>
ColShapeLength == <<"S", "h", "a", "p", "e", "_", "_", "L", "e", "n", "g", "t", "h">>
LowerShapeArea == <<"s", "h", "a", "p", "e", "_", "_", "a", "r", "e", "a">>
LowerShapeLength == <<"s", "h", "a", "p", "e", "_", "_", "l", "e", "n", "g", "t", "h">>

\* The columns of final_systems: the geometry and the area of the polygon,
\* and any of the attribute columns; a layer may not expose the length
FinalColumnSets ==
    {{ColShape, ColShapeArea} \cup more :
        more \in SUBSET {ColPwsid, ColSystemName, ColClass, ColFid, ColLink, ColShapeLength}}

\* A row of final_systems; each cell holds the text of its column's name
FinalFrame(columns, n) == [i \in 1..n |-> [idx |-> i, rec |-> [c \in columns |-> Str(c)]]]

IsAlnum(c) ==
    \/ IsDigit(c)
    \/ \E i \in 1..Len(UpperChars) : UpperChars[i] = c \/ LowerChars[i] = c
\* utils.rename_columns_for_agol on one name that starts with a letter: every
\* character that is neither alphanumeric nor "_" becomes "_"
AgolName(s) == [i \in 1..Len(s) |-> IF IsAlnum(s[i]) \/ s[i] = "_" THEN s[i] ELSE "_"]

\* A faulty variant: SHAPE is not taken out of the renames
CleanedColumnAll(c) == Lower(AgolName(c))
\* The name rename(columns=cleaned_columns) gives a column: SHAPE was popped
\* from the dict and stays
CleanedColumn(c) == IF c = ColShape THEN c ELSE Lower(AgolName(c))

RenamedRow(row) ==
    LET columns == DOMAIN row.rec
    IN  [idx |-> row.idx,
         rec |-> [n \in {CleanedColumn(c) : c \in columns} |->
                    row.rec[CHOOSE c \in columns : CleanedColumn(c) = n]]]

DropColumns(row, dropped) ==
    [idx |-> row.idx, rec |-> [c \in DOMAIN row.rec \ dropped |-> row.rec[c]]]

KeyErrorShape == "KeyError: 'SHAPE'"
KeyErrorNotInAxis == "KeyError: not found in axis"

InitAgol ==
    /\ FetchIdle
    /\ PointsIdle
    /\ pc = "clean_agol"
    /\ raised = "none"
    /\ systems = EmptyFrame
    /\ invalid_pwsids = <<>>
    /\ cleaned_systems_dataframe = EmptyFrame
    /\ loaded_sheet = EmptyFrame
    /\ LinksIdle
    /\ cleaned_water_service_areas = EmptyFrame
    /\ all_systems = EmptyFrame
    /\ missing_geometries = <<>>
    /\ \E columns \in FinalColumnSets, n \in 1..MaxFinalRows :
        /\ merged_systems = FinalFrame(columns, n)
        /\ final_systems = FinalFrame(columns, n)
    /\ ProcessIdle

CleanDataframeForAgol ==
    /\ pc = "clean_agol"
    /\ LET columns == DOMAIN final_systems[1].rec
           renamed == [i \in 1..Len(final_systems) |-> RenamedRow(final_systems[i])]
       IN  IF ColShape \notin columns
           THEN /\ raised' = KeyErrorShape
                /\ pc' = "raised"
                /\ UNCHANGED final_systems
           ELSE IF ~({LowerShapeArea, LowerShapeLength} \subseteq DOMAIN renamed[1].rec)
           THEN /\ raised' = KeyErrorNotInAxis
                /\ pc' = "raised"
                /\ final_systems' = renamed
           ELSE /\ final_systems' =
                    [i \in 1..Len(renamed) |->
                        DropColumns(renamed[i], {LowerShapeArea, LowerShapeLength})]
                /\ pc' = "agol_cleaned"
                /\ UNCHANGED raised
    /\ UNCHANGED <<fetchVars, pointVars, systems, invalid_pwsids, cleaned_systems_dataframe,
                   loaded_sheet, linkVars, cleaned_water_service_areas, all_systems,
                   missing_geometries, merged_systems, processVars>>

NextAgol == CleanDataframeForAgol

SpecAgol == InitAgol /\ [][NextAgol]_vars

\* C18: clean_dataframe_for_agol renames every column of final_systems but
\* SHAPE to the lowercased AGOL name, leaves SHAPE as it is, drops exactly
\* shape__area and shape__length, and adds or removes no row: each row keeps
\* its label and, under the new names, its cells.
C18_ColumnsCleaned ==
    pc = "agol_cleaned" =>
        /\ Len(final_systems) = Len(merged_systems)
        /\ \A i \in 1..Len(final_systems) :
            LET was == merged_systems[i]
                is == final_systems[i]
            IN  /\ is.idx = was.idx
                /\ DOMAIN is.rec =
                    {IF c = ColShape THEN c ELSE Lower(AgolName(c)) :
                        c \in DOMAIN was.rec \ {ColShapeArea, ColShapeLength}}
                /\ \A c \in DOMAIN was.rec \ {ColShapeArea, ColShapeLength} :
                    is.rec[IF c = ColShape THEN c ELSE Lower(AgolName(c))] = was.rec[c]
                /\ ColShape \in DOMAIN is.rec
                /\ ColClass \in DOMAIN was.rec =>
                    <<"s", "c", "_", "_", "l", "c">> \in DOMAIN is.rec
                /\ ColSystemName \in DOMAIN was.rec =>
                    <<"s", "y", "s", "t", "e", "m", "_", "n", "a", "m", "e">> \in DOMAIN is.rec
                /\ \A n \in DOMAIN is.rec : n = ColShape \/ n = Lower(n)

C18_Witness ==
    /\ pc = "agol_cleaned"
    /\ Len(final_systems) = 2
    /\ DOMAIN merged_systems[1].rec =
        {ColShape, ColShapeArea, ColShapeLength, ColPwsid, ColClass, ColSystemName}
    /\ DOMAIN final_systems[1].rec =
        {ColShape, <<"p", "w", "s", "i", "d">>, <<"s", "c", "_", "_", "l", "c">>,
         <<"s", "y", "s", "t", "e", "m", "_", "n", "a", "m", "e">>}

-----------------------------------------------------------------------------
(* process(): the order of the stages.  A stage is one call of process; it  *)
(* either returns or raises, and what it computes is left to the           *)
(* specifications of the stages above.                                     *)

MaxLoaded == 3         \* the largest count truncate_and_load returns

\* A faulty variant: the areas are loaded where the points should be
StagesAreasFirst ==
    <<"load_records_from_graphql", "spatialize_point_data", "clean_point_data",
      "truncate_and_load areas",
      "load_systems_from_sheet", "clean_approved_systems", "load_system_links_from_gsheet",
      "clean_system_links", "load_system_geometries", "merge_systems_and_geometries",
      "clean_dataframe_for_agol",
      "truncate_and_load points",
      "notify">>
\* The calls of process, in the order of its statements
Stages ==
    <<"load_records_from_graphql", "spatialize_point_data", "clean_point_data",
      "truncate_and_load points",
      "load_systems_from_sheet", "clean_approved_systems", "load_system_links_from_gsheet",
      "clean_system_links", "load_system_geometries", "merge_systems_and_geometries",
      "clean_dataframe_for_agol",
      "truncate_and_load areas",
      "notify">>

\* The statement after a call that returned
After(stage) ==
    LET i == CHOOSE k \in 1..Len(Stages) : Stages[k] = stage
    IN  IF i < Len(Stages) THEN Stages[i + 1] ELSE "done"

\* A faulty variant: the exception is caught and process goes on
Swallow(stage) == After(stage)
\* Where an exception of a call leaves process: there is no try/except, it
\* propagates out of the function
Propagate(stage) == "raised"

StageError == "Exception"

Returns(stage) ==
    /\ pc = stage
    /\ log' = Append(log, [stage |-> stage, outcome |-> "returned"])
    /\ pc' = After(stage)
    /\ UNCHANGED raised

Raises(stage) ==
    /\ pc = stage
    /\ log' = Append(log, [stage |-> stage, outcome |-> "raised"])
    /\ pc' = Propagate(stage)
    /\ raised' = StageError
    /\ UNCHANGED <<features_loaded, areas_loaded, notified>>

\* A call whose result stays inside point_data or sheet_data
Call(stage) ==
    /\ \/ Returns(stage) /\ UNCHANGED <<features_loaded, areas_loaded, notified>>
       \/ Raises(stage)
    /\ UNCHANGED <<fetchVars, pointVars, systems, invalid_pwsids, cleaned_systems_dataframe,
                   loaded_sheet, linkVars, mergeVars>>

InitProcess ==
    /\ FetchIdle
    /\ PointsIdle
    /\ SheetIdle
    /\ pc = Stages[1]
    /\ raised = "none"

CallLoadRecordsFromGraphql == Call("load_records_from_graphql")
CallSpatializePointData == Call("spatialize_point_data")
CallCleanPointData == Call("clean_point_data")

CallTruncateAndLoadPoints ==
    /\ \/ /\ Returns("truncate_and_load points")
          /\ features_loaded' \in 0..MaxLoaded
          /\ UNCHANGED <<areas_loaded, notified>>
       \/ Raises("truncate_and_load points")
    /\ UNCHANGED <<fetchVars, pointVars, systems, invalid_pwsids, cleaned_systems_dataframe,
                   loaded_sheet, linkVars, mergeVars>>

CallLoadSystemsFromSheet == Call("load_systems_from_sheet")
CallCleanApprovedSystems == Call("clean_approved_systems")
CallLoadSystemLinksFromGsheet == Call("load_system_links_from_gsheet")
CallCleanSystemLinks == Call("clean_system_links")
CallLoadSystemGeometries == Call("load_system_geometries")
CallMergeSystemsAndGeometries == Call("merge_systems_and_geometries")
CallCleanDataframeForAgol == Call("clean_dataframe_for_agol")

CallTruncateAndLoadAreas ==
    /\ \/ /\ Returns("truncate_and_load areas")
          /\ areas_loaded' \in 0..MaxLoaded
          /\ UNCHANGED <<features_loaded, notified>>
       \/ Raises("truncate_and_load areas")
    /\ UNCHANGED <<fetchVars, pointVars, systems, invalid_pwsids, cleaned_systems_dataframe,
                   loaded_sheet, linkVars, mergeVars>>

\* The summary is put together and handed to skid_supervisor.notify
CallNotify ==
    /\ \/ /\ Returns("notify")
          /\ notified' = notified + 1
          /\ UNCHANGED <<features_loaded, areas_loaded>>
       \/ Raises("notify")
    /\ UNCHANGED <<fetchVars, pointVars, systems, invalid_pwsids, cleaned_systems_dataframe,
                   loaded_sheet, linkVars, mergeVars>>

NextProcess ==
    \/ CallLoadRecordsFromGraphql
    \/ CallSpatializePointData
    \/ CallCleanPointData
    \/ CallTruncateAndLoadPoints
    \/ CallLoadSystemsFromSheet
    \/ CallCleanApprovedSystems
    \/ CallLoadSystemLinksFromGsheet
    \/ CallCleanSystemLinks
    \/ CallLoadSystemGeometries
    \/ CallMergeSystemsAndGeometries
    \/ CallCleanDataframeForAgol
    \/ CallTruncateAndLoadAreas
    \/ CallNotify

SpecProcess == InitProcess /\ [][NextProcess]_vars

-----------------------------------------------------------------------------
(* Claims about process() *)

CalledAt(stage) == {i \in 1..Len(log) : log[i].stage = stage}
Completed(stage) == \E i \in CalledAt(stage) : log[i].outcome = "returned"

C20_RaiseAbortsRun ==
    /\ \A i \in 1..Len(log) : log[i].outcome = "raised" => i = Len(log)
    /\ raised = "none" <=> \A i \in 1..Len(log) : log[i].outcome = "returned"
    /\ (\E i \in CalledAt("truncate_and_load points") : log[i].outcome = "raised")
            => CalledAt("truncate_and_load areas") = {}
    /\ notified <= 1
    /\ notified = 1 =>
        /\ Completed("truncate_and_load points")
        /\ Completed("truncate_and_load areas")
        /\ raised = "none"

C20_Witness ==
    /\ pc = "raised"
    /\ Len(log) = 4
    /\ log[4] = [stage |-> "truncate_and_load points", outcome |-> "raised"]
    /\ notified = 0

====
